---------------------------- MODULE Spec2Model ----------------------------
(***************************************************************************)
(* Model of the order pipeline of the Binance futures trading bot:         *)
(*   src/src/market_order.py     MarketOrder.place_order                   *)
(*   src/src/limit_order.py      LimitOrder.place_limit_order              *)
(*   src/src/advanced/oco.py     OCOOrder.place_oco                        *)
(*   src/src/utils/validators.py Validator.*                               *)
(*                                                                         *)
(* One invocation of an order operation is a sequence of steps; every      *)
(* step that talks to the exchange client draws the exchange's answer      *)
(* nondeterministically.  The interactive menu (src/cli.py) invokes the     *)
(* operations one after the other.                                         *)
(*                                                                         *)
(* Number encodings (Python floats are modelled by exact decimals; the     *)
(* rounding operators were compared with CPython on every input of the     *)
(* domains below):                                                         *)
(*   ticker price and limit price : tenths of a quote unit (500000 = 50000.0)*)
(*   balance                      : whole quote units                      *)
(*   quantity                     : millionths of a base unit (2000 = 0.002)*)
(*   tp / sl percent              : whole percent                          *)
(*   derived tp / sl              : whole quote units (round() to an int)  *)
(***************************************************************************)
EXTENDS Integers, Sequences, FiniteSets, TLC

VARIABLES
    op,          \* operation being executed: "idle", "market", "limit", "oco"
    pc,          \* position inside the operation
    gi,          \* index of the next validator of the operation's gate
    args,        \* the arguments the operation was called with
    quantity,    \* the local variable quantity (market: reassigned by the adjuster)
    bounds,      \* what validate_quantity_bounds last computed
    oco,         \* what place_oco derived (current_price, tp, sl, order_side)
    calls,       \* exchange client calls made by this invocation, in order
    logs,        \* log records (levels) emitted by this invocation, in order
    trace,       \* validators / steps executed by this invocation, in order
    outcome,     \* "running", "order" (result returned), "none" (None returned), "raised"
    error,       \* the exception that ended the invocation, if any
    exLeverage   \* exchange state: leverage last set through futures_change_leverage

vars == <<op, pc, gi, args, quantity, bounds, oco, calls, logs, trace,
          outcome, error, exLeverage>>

-----------------------------------------------------------------------------
(* Bounds of the model *)

\* tp_percent and sl_percent range over 0..MaxPct
MaxPct == 2
\* balances reported by the exchange: 0, 5, .., 5 * MaxBalSteps
MaxBalSteps == 2
\* requested quantities include 0.001 * k for k in 1..MaxQtySteps
MaxQtySteps == 3

(* Program constants *)

MinLeverage == 1
MaxLeverage == 125
DefaultMinUsd == 100
DefaultMinUsdRequired == 10
QtyDecimals == 6
\* the safety fraction 0.8, in tenths
SafetyTenths == 8

-----------------------------------------------------------------------------
(* Input domains *)

\* scale of the price encoding (tenths) and of the quantity encoding (10^QtyDecimals)
RECURSIVE Pow10(_)
Pow10(n) == IF n = 0 THEN 1 ELSE 10 * Pow10(n - 1)
PriceScale == Pow10(1)
QtyScale == Pow10(QtyDecimals)

Symbols == {"BTCUSDT", "btcusdt", "FAKEUSDT"}
Sides == {"BUY", "sell", "HOLD"}
TimeInForces == {"GTC", "ioc", "XYZ"}
Quantities == {-1000, 0, 100, 1000000} \cup {1000 * k : k \in 1..MaxQtySteps}
LimitPrices == {-10, 0, 1, 500000}
Pcts == 0..MaxPct
IntLev(n) == [kind |-> "int", val |-> n]
FloatLev(n) == [kind |-> "float", val |-> n]
Leverages == {IntLev(0), IntLev(1), IntLev(20), IntLev(125), IntLev(126), IntLev(150),
              FloatLev(20)}

\* str.upper() on the strings of the model
Upper(s) ==
    CASE s = "btcusdt" -> "BTCUSDT"
      [] s = "sell" -> "SELL"
      [] s = "buy" -> "BUY"
      [] s = "ioc" -> "IOC"
      [] s = "gtc" -> "GTC"
      [] s = "fok" -> "FOK"
      [] OTHER -> s

(* Answers of the exchange client *)

\* futures_exchange_info(): the published symbols with the PRICE_FILTER minPrice
\* (tenths), or an API exception
ExchangeInfoOk == [kind |-> "ok", symbols |-> {"BTCUSDT", "ETHUSDT"}, minPrice |-> 5]
InfoAnswers == {ExchangeInfoOk, [kind |-> "raise", symbols |-> {}, minPrice |-> 0]}
\* futures_ping(): a response, None, or an API exception
PingAnswers == {"ok", "none", "raise"}
\* futures_account_balance(): a USDT entry, no USDT entry, or an API exception
Balances == {5 * k : k \in 0..MaxBalSteps}
BalanceAnswers == {[kind |-> "ok", bal |-> b] : b \in Balances}
                    \cup {[kind |-> "missing", bal |-> 0], [kind |-> "raise", bal |-> 0]}
\* futures_symbol_ticker(): a price (tenths), or an API exception
TickerPrices == {100, 104, 250, 500000}
TickerAnswers == {[kind |-> "ok", price |-> p] : p \in TickerPrices}
                    \cup {[kind |-> "raise", price |-> 0]}
\* futures_change_leverage(), futures_create_order(): accepted, or an API exception
WriteAnswers == {"ok", "raise"}

-----------------------------------------------------------------------------
(* Exceptions and records *)

NoExc == [type |-> "none", msg |-> ""]
Exc(t, m) == [type |-> t, msg |-> m]
ApiError == Exc("BinanceAPIException", "exchange call failed")

NoArgs == [symbol |-> "", side |-> "", quantity |-> 0, leverage |-> IntLev(0),
           price |-> 0, time_in_force |-> "", tp_percent |-> 0, sl_percent |-> 0]
NoBounds == [done |-> FALSE, requested |-> 0, price |-> 0, bal |-> 0, leverage |-> 0,
             min_qty |-> 0, max_qty |-> 0, returned |-> 0]
NoOco == [done |-> FALSE, current_price |-> 0, tp |-> 0, sl |-> 0, order_side |-> ""]

\* a call of the exchange client: ret is how it ended ("ok", "none": it returned
\* None, "missing": no USDT entry, "raise": an API exception), value the balance or
\* price it returned
ClientCall(fn, ret, value) ==
    [fn |-> fn, ret |-> ret, value |-> value, type |-> "", side |-> "", quantity |-> 0,
     price |-> 0, stopPrice |-> 0, timeInForce |-> "", leverage |-> IntLev(0)]
OrderCall(type, side, qty, price, stopPrice, tif, ret) ==
    [fn |-> "futures_create_order", ret |-> ret, value |-> 0, type |-> type,
     side |-> side, quantity |-> qty, price |-> price, stopPrice |-> stopPrice,
     timeInForce |-> tif, leverage |-> IntLev(0)]
LeverageCall(lev, ret) ==
    [fn |-> "futures_change_leverage", ret |-> ret, value |-> 0, type |-> "",
     side |-> "", quantity |-> 0, price |-> 0, stopPrice |-> 0, timeInForce |-> "",
     leverage |-> lev]

-----------------------------------------------------------------------------
(* Arithmetic *)

Abs(x) == IF x < 0 THEN -x ELSE x

\* Python's round(): to the nearest, ties to the even neighbour; the value is
\* q + r/d with q its floor and 0 <= r < d
RoundHalfEven(q, r, d) ==
    IF 2 * r < d THEN q
    ELSE IF 2 * r > d THEN q + 1
    ELSE IF q % 2 = 0 THEN q ELSE q + 1

\* round(num / den) for den > 0
PyRound(num, den) == RoundHalfEven(num \div den, num % den, den)

\* round(a * b / d) for a, b >= 0 and d > 0, without forming the product a * b
PyRoundMulDiv(a, b, d) ==
    RoundHalfEven(a * (b \div d) + (a * (b % d)) \div d, (a * (b % d)) % d, d)

-----------------------------------------------------------------------------
(* Validator (src/src/utils/validators.py).  A validator yields the exception *)
(* it raises (NoExc: it returns) and the log records it emits.              *)

Ok(lg) == [exc |-> NoExc, logs |-> lg]
Raises(e, lg) == [exc |-> e, logs |-> lg]

validate_order_params(symbol, qty, hasPrice, price) ==
    IF symbol = ""
    THEN Raises(Exc("ValueError", "Symbol must be a valid string"), <<"error">>)
    ELSE IF qty <= 0
    THEN Raises(Exc("ValueError", "Quantity must be a positive number"), <<"error">>)
    ELSE IF hasPrice /\ price <= 0
    THEN Raises(Exc("ValueError", "Price must be positive if provided"), <<"error">>)
    ELSE Ok(<<"debug">>)

\* info: the answer of client.futures_exchange_info()
validate_symbol(symbol, info) ==
    IF info.kind = "raise"
    THEN Raises(ApiError, <<"error">>)
    ELSE IF symbol \notin info.symbols
    THEN Raises(Exc("ValueError", "Symbol is not available on Binance Futures"),
                <<"error", "error">>)
    ELSE Ok(<<"debug">>)

validate_side(side) ==
    IF Upper(side) \notin {"BUY", "SELL"}
    THEN Raises(Exc("ValueError", "Side must be BUY or SELL"), <<"error">>)
    ELSE Ok(<<"debug">>)

\* info: the answer of the validator's own client.futures_exchange_info() call,
\* made only when quantity and price are positive
validate_quantity_price(symbol, qty, price, info) ==
    IF qty <= 0
    THEN Raises(Exc("ValueError", "Quantity must be greater than zero"), <<"error">>)
    ELSE IF price <= 0
    THEN Raises(Exc("ValueError", "Price must be greater than zero"), <<"error">>)
    ELSE IF info.kind = "raise"
    THEN Raises(ApiError, <<>>)
    ELSE IF symbol \notin info.symbols
    THEN Ok(<<"error">>)
    ELSE IF price < info.minPrice
    THEN Ok(<<"error", "debug">>)
    ELSE Ok(<<"debug">>)

validate_time_in_force(tif) ==
    IF Upper(tif) \notin {"GTC", "IOC", "FOK"}
    THEN Ok(<<"error", "debug">>)
    ELSE Ok(<<"debug">>)

\* validate_leverage without its upper limit
validate_leverage_no_upper(leverage) ==
    IF leverage.kind # "int"
    THEN Raises(Exc("ValueError", "Leverage must be an integer"), <<>>)
    ELSE IF leverage.val < MinLeverage
    THEN Raises(Exc("ValueError", "Leverage must be between 1 and 125"), <<>>)
    ELSE Ok(<<"debug">>)

validate_leverage(leverage) ==
    IF leverage.kind # "int"
    THEN Raises(Exc("ValueError", "Leverage must be an integer"), <<>>)
    ELSE IF leverage.val < MinLeverage \/ leverage.val > MaxLeverage
    THEN Raises(Exc("ValueError", "Leverage must be between 1 and 125"), <<>>)
    ELSE Ok(<<"debug">>)

\* balance: the answer of client.futures_account_balance()
validate_margin(balance, min_usd_required) ==
    IF balance.kind = "raise"
    THEN Raises(ApiError, <<>>)
    ELSE IF balance.kind = "missing"
    THEN Raises(Exc("StopIteration", ""), <<>>)
    ELSE IF balance.bal < min_usd_required
    THEN Raises(Exc("ValueError", "Insufficient balance"), <<>>)
    ELSE Ok(<<"debug">>)

\* ping: the answer of client.futures_ping()
validate_market_status(ping) ==
    IF ping = "raise"
    THEN Raises(ApiError, <<>>)
    ELSE IF ping = "none"
    THEN Raises(Exc("ConnectionError", "Binance Futures API is unreachable"), <<"error">>)
    ELSE Ok(<<"debug">>)

\* min_qty = round(min_usd / price, 6) and max_qty = round(bal * leverage * 0.8 / price, 6),
\* in millionths, for a price in tenths
MinQty(min_usd, price) == PyRoundMulDiv(min_usd * PriceScale, QtyScale, price)
MaxQty(bal, leverage, price) == PyRoundMulDiv(bal * leverage * SafetyTenths, QtyScale, price)

\* the adjuster with the upper limit tested ahead of the lower limit
AdjustedQuantity_max_first(qty, min_qty, max_qty) ==
    IF qty > max_qty THEN max_qty
    ELSE IF qty < min_qty THEN min_qty
    ELSE qty

\* the quantity validate_quantity_bounds returns once price and balance are known
AdjustedQuantity(qty, min_qty, max_qty) ==
    IF qty < min_qty THEN min_qty
    ELSE IF qty > max_qty THEN max_qty
    ELSE qty

\* ticker, balance: the answers of client.futures_symbol_ticker() and
\* client.futures_account_balance(); the balance is fetched only after the price
validate_quantity_bounds(qty, ticker, balance, leverage, min_usd) ==
    IF ticker.kind = "raise"
    THEN [exc |-> ApiError, logs |-> <<>>, balanceFetched |-> FALSE, bounds |-> NoBounds]
    ELSE IF balance.kind = "raise"
    THEN [exc |-> ApiError, logs |-> <<>>, balanceFetched |-> TRUE, bounds |-> NoBounds]
    ELSE IF balance.kind = "missing"
    THEN [exc |-> Exc("StopIteration", ""), logs |-> <<>>, balanceFetched |-> TRUE,
          bounds |-> NoBounds]
    ELSE LET min_qty == MinQty(min_usd, ticker.price)
             max_qty == MaxQty(balance.bal, leverage.val, ticker.price)
             ret == AdjustedQuantity(qty, min_qty, max_qty)
         IN  [exc |-> NoExc,
              logs |-> IF ret # qty THEN <<"warning">> ELSE <<>>,
              balanceFetched |-> TRUE,
              bounds |-> [done |-> TRUE, requested |-> qty, price |-> ticker.price,
                          bal |-> balance.bal, leverage |-> leverage.val,
                          min_qty |-> min_qty, max_qty |-> max_qty, returned |-> ret]]

-----------------------------------------------------------------------------
(* OCO price derivation (src/src/advanced/oco.py) *)

\* tp = round(current_price * (1 +- tp_percent / 100)), price in tenths
TakeProfit(side, price, tp_percent) ==
    IF side = "BUY"
    THEN PyRound(price * (100 + tp_percent), 100 * PriceScale)
    ELSE PyRound(price * (100 - tp_percent), 100 * PriceScale)

\* sl = round(current_price * (1 -+ sl_percent / 100)), price in tenths
StopLoss(side, price, sl_percent) ==
    IF side = "BUY"
    THEN PyRound(price * (100 - sl_percent), 100 * PriceScale)
    ELSE PyRound(price * (100 + sl_percent), 100 * PriceScale)

\* the directional check with strict comparisons: a trigger price equal to the
\* current price passes
DirectionCheck_strict(side, price, tp, sl) ==
    IF side = "BUY"
    THEN IF sl * PriceScale > price
         THEN Exc("ValueError", "Stop Loss placement invalid for BUY order")
         ELSE IF tp * PriceScale < price
         THEN Exc("ValueError", "Take Profit placement invalid for BUY order")
         ELSE NoExc
    ELSE IF sl * PriceScale < price
         THEN Exc("ValueError", "Stop Loss placement invalid for SELL order")
         ELSE IF tp * PriceScale > price
         THEN Exc("ValueError", "Take Profit placement invalid for SELL order")
         ELSE NoExc

\* the directional check on the derived prices: the ValueError it raises, or NoExc
DirectionCheck(side, price, tp, sl) ==
    IF side = "BUY"
    THEN IF sl * PriceScale >= price
         THEN Exc("ValueError", "Stop Loss placement invalid for BUY order")
         ELSE IF tp * PriceScale <= price
         THEN Exc("ValueError", "Take Profit placement invalid for BUY order")
         ELSE NoExc
    ELSE IF sl * PriceScale <= price
         THEN Exc("ValueError", "Stop Loss placement invalid for SELL order")
         ELSE IF tp * PriceScale >= price
         THEN Exc("ValueError", "Take Profit placement invalid for SELL order")
         ELSE NoExc

\* the closing orders placed on the side of the request itself
OrderSide_same(side) == side

\* the side of the two closing orders
OrderSide(side) == IF side = "BUY" THEN "SELL" ELSE "BUY"

-----------------------------------------------------------------------------
(* The operations *)

\* the market gate with the margin check ahead of the leverage check
MarketGate_margin_first == <<"validate_symbol", "validate_side", "validate_order_params",
                             "validate_market_status", "validate_margin",
                             "validate_leverage">>
\* the market gate without its margin check
MarketGate_no_margin == <<"validate_symbol", "validate_side", "validate_order_params",
                          "validate_market_status", "validate_leverage">>
\* the market gate with the liveness probe after the leverage and margin checks
MarketGate_probe_last == <<"validate_symbol", "validate_side", "validate_order_params",
                           "validate_leverage", "validate_margin",
                           "validate_market_status">>
\* the limit gate with the numeric check ahead of the symbol check
LimitGate_numeric_first == <<"validate_quantity_price", "validate_symbol", "validate_side",
                             "validate_time_in_force">>

\* the validators each operation runs before it submits, in the order it runs them
MarketGate == <<"validate_symbol", "validate_side", "validate_order_params",
                "validate_market_status", "validate_leverage", "validate_margin">>
LimitGate == <<"validate_symbol", "validate_side", "validate_quantity_price",
               "validate_time_in_force">>
Gate(o) == IF o = "market" THEN MarketGate ELSE IF o = "limit" THEN LimitGate ELSE <<>>

\* whether the except clause around position p of operation o catches exception e
Caught(o, p, e) ==
    CASE o = "market" -> TRUE
      [] o = "limit" -> IF p = "gate" THEN e.type = "ValueError" ELSE TRUE
      [] o = "oco" -> p \in {"stop_loss", "take_profit"}
      [] OTHER -> FALSE

\* the level at which that except clause logs
CatchLevel(o, p) == IF o = "limit" /\ p = "gate" THEN "warning" ELSE "error"

Init ==
    /\ op = "idle"
    /\ pc = "idle"
    /\ gi = 1
    /\ args = NoArgs
    /\ quantity = 0
    /\ bounds = NoBounds
    /\ oco = NoOco
    /\ calls = <<>>
    /\ logs = <<>>
    /\ trace = <<>>
    /\ outcome = "running"
    /\ error = NoExc
    /\ exLeverage = 0

\* exception e leaves the current step, which emitted the log records lg before:
\* the operation returns None when its except clause catches e, else e propagates
Fail(e, lg) ==
    /\ error' = e
    /\ pc' = "done"
    /\ IF Caught(op, pc, e)
       THEN /\ outcome' = "none"
            /\ logs' = logs \o lg \o <<CatchLevel(op, pc)>>
       ELSE /\ outcome' = "raised"
            /\ logs' = logs \o lg

\* the operation returns None without an exception, after the log records lg
ReturnNone(lg) ==
    /\ error' = NoExc
    /\ pc' = "done"
    /\ outcome' = "none"
    /\ logs' = logs \o lg

\* the validator at gate position gi has run with result r
GateResult(r) ==
    /\ trace' = Append(trace, Gate(op)[gi])
    /\ IF r.exc = NoExc
       THEN /\ logs' = logs \o r.logs
            /\ gi' = gi + 1
            /\ pc' = IF gi < Len(Gate(op)) THEN "gate"
                     ELSE IF op = "market" THEN "set_leverage" ELSE "submit"
            /\ UNCHANGED <<outcome, error>>
       ELSE /\ Fail(r.exc, r.logs)
            /\ gi' = gi
    /\ UNCHANGED <<op, args, quantity, bounds, oco, exLeverage>>

AtGate(name) == pc = "gate" /\ gi <= Len(Gate(op)) /\ Gate(op)[gi] = name

\* MarketOrder.place_order is called: symbol.upper(), side.upper(), the info log
CallPlaceOrder(symbol, side, qty, leverage) ==
    /\ pc = "idle"
    /\ op' = "market"
    /\ args' = [NoArgs EXCEPT !.symbol = Upper(symbol), !.side = Upper(side),
                              !.quantity = qty, !.leverage = leverage]
    /\ quantity' = qty
    /\ logs' = <<"info">>
    /\ pc' = "gate"
    /\ gi' = 1
    /\ UNCHANGED <<bounds, oco, calls, trace, outcome, error, exLeverage>>

\* LimitOrder.place_limit_order is called
CallPlaceLimitOrder(symbol, side, qty, price, tif) ==
    /\ pc = "idle"
    /\ op' = "limit"
    /\ args' = [NoArgs EXCEPT !.symbol = Upper(symbol), !.side = Upper(side),
                              !.quantity = qty, !.price = price,
                              !.time_in_force = Upper(tif)]
    /\ quantity' = qty
    /\ pc' = "gate"
    /\ gi' = 1
    /\ UNCHANGED <<bounds, oco, calls, logs, trace, outcome, error, exLeverage>>

\* OCOOrder.place_oco is called
CallPlaceOco(symbol, side, qty, tp_percent, sl_percent) ==
    /\ pc = "idle"
    /\ op' = "oco"
    /\ args' = [NoArgs EXCEPT !.symbol = Upper(symbol), !.side = Upper(side),
                              !.quantity = qty, !.tp_percent = tp_percent,
                              !.sl_percent = sl_percent]
    /\ quantity' = qty
    /\ pc' = "side_check"
    /\ UNCHANGED <<gi, bounds, oco, calls, logs, trace, outcome, error, exLeverage>>

ValidateSymbol ==
    /\ AtGate("validate_symbol")
    /\ \E info \in InfoAnswers :
          /\ calls' = Append(calls, ClientCall("futures_exchange_info", info.kind, 0))
          /\ GateResult(validate_symbol(args.symbol, info))

ValidateSide ==
    /\ AtGate("validate_side")
    /\ calls' = calls
    /\ GateResult(validate_side(args.side))

ValidateOrderParams ==
    /\ AtGate("validate_order_params")
    /\ calls' = calls
    /\ GateResult(validate_order_params(args.symbol, quantity, FALSE, 0))

ValidateMarketStatus ==
    /\ AtGate("validate_market_status")
    /\ \E ping \in PingAnswers :
          /\ calls' = Append(calls, ClientCall("futures_ping", ping, 0))
          /\ GateResult(validate_market_status(ping))

ValidateLeverage ==
    /\ AtGate("validate_leverage")
    /\ calls' = calls
    /\ GateResult(validate_leverage(args.leverage))

ValidateMargin ==
    /\ AtGate("validate_margin")
    /\ \E balance \in BalanceAnswers :
          /\ calls' = Append(calls, ClientCall("futures_account_balance",
                                               balance.kind, balance.bal))
          /\ GateResult(validate_margin(balance, DefaultMinUsdRequired))

ValidateQuantityPrice ==
    /\ AtGate("validate_quantity_price")
    /\ \E info \in InfoAnswers :
          /\ calls' = IF quantity > 0 /\ args.price > 0
                      THEN Append(calls, ClientCall("futures_exchange_info",
                                                    info.kind, 0))
                      ELSE calls
          /\ GateResult(validate_quantity_price(args.symbol, quantity, args.price, info))

ValidateTimeInForce ==
    /\ AtGate("validate_time_in_force")
    /\ calls' = calls
    /\ GateResult(validate_time_in_force(args.time_in_force))

\* market_order.py line 50: the leverage is set on the exchange
ChangeLeverage ==
    /\ op = "market" /\ pc = "set_leverage"
    /\ trace' = Append(trace, "futures_change_leverage")
    /\ \E w \in WriteAnswers :
          /\ calls' = Append(calls, LeverageCall(args.leverage, w))
          /\ IF w = "ok"
             THEN /\ exLeverage' = args.leverage.val
                  /\ pc' = "bounds"
                  /\ UNCHANGED <<logs, outcome, error>>
             ELSE /\ Fail(ApiError, <<>>)
                  /\ exLeverage' = exLeverage
    /\ UNCHANGED <<op, gi, args, quantity, bounds, oco>>

\* market_order.py lines 52-57: quantity = Validator.validate_quantity_bounds(...)
ValidateQuantityBounds ==
    /\ op = "market" /\ pc = "bounds"
    /\ trace' = Append(trace, "validate_quantity_bounds")
    /\ \E ticker \in TickerAnswers, balance \in BalanceAnswers :
          LET r == validate_quantity_bounds(quantity, ticker, balance, args.leverage,
                                            DefaultMinUsd)
          IN  /\ calls' = calls
                            \o <<ClientCall("futures_symbol_ticker", ticker.kind, ticker.price)>>
                            \o (IF r.balanceFetched
                                THEN <<ClientCall("futures_account_balance",
                                                  balance.kind, balance.bal)>>
                                ELSE <<>>)
              /\ IF r.exc = NoExc
                 THEN /\ quantity' = r.bounds.returned
                      /\ bounds' = r.bounds
                      /\ logs' = logs \o r.logs
                      /\ pc' = "submit"
                      /\ UNCHANGED <<outcome, error>>
                 ELSE /\ Fail(r.exc, r.logs)
                      /\ UNCHANGED <<quantity, bounds>>
    /\ UNCHANGED <<op, gi, args, oco, exLeverage>>

\* market_order.py lines 59-69: the check of the adjusted quantity and the order
SubmitMarketOrder ==
    /\ op = "market" /\ pc = "submit"
    /\ trace' = Append(trace, "submit")
    /\ IF quantity <= 0
       THEN /\ ReturnNone(<<"error">>)
            /\ calls' = calls
       ELSE \E w \in WriteAnswers :
               /\ calls' = Append(calls, OrderCall("Market", args.side, quantity, 0, 0,
                                                   "", w))
               /\ IF w = "ok"
                  THEN /\ outcome' = "order"
                       /\ logs' = Append(logs, "info")
                       /\ pc' = "done"
                       /\ error' = error
                  ELSE Fail(ApiError, <<>>)
    /\ UNCHANGED <<op, gi, args, quantity, bounds, oco, exLeverage>>

\* limit_order.py lines 49-65: the order
SubmitLimitOrder ==
    /\ op = "limit" /\ pc = "submit"
    /\ trace' = Append(trace, "submit")
    /\ \E w \in WriteAnswers :
          /\ calls' = Append(calls, OrderCall("LIMIT", args.side, quantity, args.price, 0,
                                              args.time_in_force, w))
          /\ IF w = "ok"
             THEN /\ outcome' = "order"
                  /\ logs' = logs \o <<"info", "info">>
                  /\ pc' = "done"
                  /\ error' = error
             ELSE Fail(ApiError, <<"info">>)
    /\ UNCHANGED <<op, gi, args, quantity, bounds, oco, exLeverage>>

\* oco.py lines 55-57: only BUY or SELL
OcoCheckSide ==
    /\ op = "oco" /\ pc = "side_check"
    /\ trace' = Append(trace, "side_check")
    /\ IF args.side \notin {"BUY", "SELL"}
       THEN ReturnNone(<<"error">>)
       ELSE /\ pc' = "get_price"
            /\ UNCHANGED <<logs, outcome, error>>
    /\ UNCHANGED <<op, gi, args, quantity, bounds, oco, calls, exLeverage>>

\* oco.py line 59: current_price = self.get_price(symbol)
OcoGetPrice ==
    /\ op = "oco" /\ pc = "get_price"
    /\ trace' = Append(trace, "get_price")
    /\ \E ticker \in TickerAnswers :
          /\ calls' = Append(calls, ClientCall("futures_symbol_ticker", ticker.kind, ticker.price))
          /\ IF ticker.kind = "ok"
             THEN /\ oco' = [oco EXCEPT !.current_price = ticker.price]
                  /\ logs' = Append(logs, "info")
                  /\ pc' = "derive"
                  /\ UNCHANGED <<outcome, error>>
             ELSE /\ Fail(ApiError, <<>>)
                  /\ oco' = oco
    /\ UNCHANGED <<op, gi, args, quantity, bounds, exLeverage>>

\* oco.py lines 61-88: the trigger prices, their directional check, the closing side
OcoDerive ==
    /\ op = "oco" /\ pc = "derive"
    /\ trace' = Append(trace, "derive")
    /\ LET tp == TakeProfit(args.side, oco.current_price, args.tp_percent)
           sl == StopLoss(args.side, oco.current_price, args.sl_percent)
           e == DirectionCheck(args.side, oco.current_price, tp, sl)
       IN  /\ oco' = [oco EXCEPT !.done = TRUE, !.tp = tp, !.sl = sl,
                                 !.order_side = IF e = NoExc THEN OrderSide(args.side)
                                                ELSE ""]
           /\ IF e = NoExc
              THEN /\ logs' = Append(logs, "info")
                   /\ pc' = "stop_loss"
                   /\ UNCHANGED <<outcome, error>>
              ELSE Fail(e, <<"error">>)
    /\ UNCHANGED <<op, gi, args, quantity, bounds, calls, exLeverage>>

\* the STOP_MARKET step going on to the take-profit order whatever the exchange answers
OcoStopLoss_unconditional ==
    /\ op = "oco" /\ pc = "stop_loss"
    /\ trace' = Append(trace, "stop_loss")
    /\ \E w \in WriteAnswers :
          calls' = Append(calls, OrderCall("STOP_MARKET", oco.order_side, quantity, 0,
                                          oco.sl, "", w))
    /\ pc' = "take_profit"
    /\ UNCHANGED <<op, gi, args, quantity, bounds, oco, exLeverage, logs, outcome, error>>

\* oco.py lines 91-98: the STOP_MARKET order
OcoStopLoss ==
    /\ op = "oco" /\ pc = "stop_loss"
    /\ trace' = Append(trace, "stop_loss")
    /\ \E w \in WriteAnswers :
          /\ calls' = Append(calls, OrderCall("STOP_MARKET", oco.order_side, quantity, 0,
                                              oco.sl, "", w))
          /\ IF w = "ok"
             THEN /\ pc' = "take_profit"
                  /\ UNCHANGED <<logs, outcome, error>>
             ELSE Fail(ApiError, <<>>)
    /\ UNCHANGED <<op, gi, args, quantity, bounds, oco, exLeverage>>

\* oco.py lines 100-111: the TAKE_PROFIT_MARKET order and the result
OcoTakeProfit ==
    /\ op = "oco" /\ pc = "take_profit"
    /\ trace' = Append(trace, "take_profit")
    /\ \E w \in WriteAnswers :
          /\ calls' = Append(calls, OrderCall("TAKE_PROFIT_MARKET", oco.order_side,
                                              quantity, 0, oco.tp, "", w))
          /\ IF w = "ok"
             THEN /\ outcome' = "order"
                  /\ logs' = Append(logs, "info")
                  /\ pc' = "done"
                  /\ error' = error
             ELSE Fail(ApiError, <<>>)
    /\ UNCHANGED <<op, gi, args, quantity, bounds, oco, exLeverage>>

\* the operation has ended; the menu loop of cli.py is ready for the next one
Return ==
    /\ pc = "done"
    /\ op' = "idle"
    /\ pc' = "idle"
    /\ gi' = 1
    /\ args' = NoArgs
    /\ quantity' = 0
    /\ bounds' = NoBounds
    /\ oco' = NoOco
    /\ calls' = <<>>
    /\ logs' = <<>>
    /\ trace' = <<>>
    /\ outcome' = "running"
    /\ error' = NoExc
    /\ UNCHANGED exLeverage

Next ==
    \/ \E s \in Symbols, d \in Sides, q \in Quantities, l \in Leverages :
          CallPlaceOrder(s, d, q, l)
    \/ \E s \in Symbols, d \in Sides, q \in Quantities, p \in LimitPrices,
          t \in TimeInForces : CallPlaceLimitOrder(s, d, q, p, t)
    \/ \E s \in Symbols, d \in Sides, q \in Quantities, t \in Pcts, l \in Pcts :
          CallPlaceOco(s, d, q, t, l)
    \/ ValidateSymbol
    \/ ValidateSide
    \/ ValidateOrderParams
    \/ ValidateMarketStatus
    \/ ValidateLeverage
    \/ ValidateMargin
    \/ ValidateQuantityPrice
    \/ ValidateTimeInForce
    \/ ChangeLeverage
    \/ ValidateQuantityBounds
    \/ SubmitMarketOrder
    \/ SubmitLimitOrder
    \/ OcoCheckSide
    \/ OcoGetPrice
    \/ OcoDerive
    \/ OcoStopLoss
    \/ OcoTakeProfit
    \/ Return

Spec == Init /\ [][Next]_vars

-----------------------------------------------------------------------------
(* Properties *)

PublishedSymbols == ExchangeInfoOk.symbols
CallIndexes == 1..Len(calls)
Made(fn) == \E i \in CallIndexes : calls[i].fn = fn
Ran(name) == \E i \in 1..Len(trace) : trace[i] = name
LeverageRangeError == "Leverage must be between 1 and 125"
UnknownSymbolError == "Symbol is not available on Binance Futures"

\* C1: in MarketOrder.place_order a leverage that is not an integer or lies outside
\* [1,125] is rejected: the operation returns the failure result, and neither
\* futures_change_leverage nor futures_create_order is called in that invocation.
C1_InvalidLeverageRejected ==
    (op = "market" /\ (args.leverage.kind # "int" \/ args.leverage.val < 1
                        \/ args.leverage.val > 125))
       => /\ ~Made("futures_change_leverage")
          /\ ~Made("futures_create_order")
          /\ pc \notin {"set_leverage", "bounds", "submit"}
          /\ (pc = "done" => outcome = "none")

C1_Witness ==
    /\ op = "market" /\ pc = "done" /\ outcome = "none"
    /\ args.leverage = IntLev(126)
    /\ error.msg = LeverageRangeError

C2_Scenario ==
    /\ op = "market"
    /\ args.leverage = IntLev(150)
    /\ args.symbol \in PublishedSymbols
    /\ args.side \in {"BUY", "SELL"}
    /\ args.quantity > 0

C3_UnknownSymbolRejectedFirst ==
    /\ (op \in {"market", "limit"} /\ args.symbol \notin PublishedSymbols)
          => /\ ~Ran("validate_order_params")
             /\ ~Ran("validate_quantity_price")
             /\ ~Made("futures_create_order")
             /\ (pc = "done" /\ calls # <<>> /\ calls[1].ret = "ok")
                   => /\ outcome = "none"
                      /\ error.msg = UnknownSymbolError
    /\ \A i \in 1..Len(trace) :
          trace[i] \in {"validate_order_params", "validate_quantity_price"}
             => \E j \in 1..(i - 1) : trace[j] = "validate_symbol"

C3_Witness ==
    /\ op = "limit" /\ pc = "done" /\ outcome = "none"
    /\ args.symbol = "FAKEUSDT"
    /\ args.quantity <= 0 /\ args.price <= 0
    /\ error.msg = UnknownSymbolError
    /\ trace = <<"validate_symbol">>

\* v is Python's round(num / den), den > 0: nearest, ties to even
IsPyRound(v, num, den) ==
    LET diff == v * den - num
    IN  /\ 2 * Abs(diff) <= den
        /\ (2 * Abs(diff) = den => v % 2 = 0)

RECURSIVE Gcd(_, _)
Gcd(a, b) == IF b = 0 THEN a ELSE Gcd(b, a % b)

\* C4: for every current price and every tp_pct > 0 and sl_pct > 0 the trigger prices
\* place_oco derives satisfy take_profit > current_price > stop_loss for BUY and
\* take_profit < current_price < stop_loss for SELL (prices in tenths, derived
\* prices in whole units).
C4_DerivedPricesStrictlyOrdered ==
    (op = "oco" /\ oco.done /\ args.tp_percent > 0 /\ args.sl_percent > 0)
       => IF args.side = "BUY"
          THEN oco.tp * 10 > oco.current_price /\ oco.current_price > oco.sl * 10
          ELSE oco.tp * 10 < oco.current_price /\ oco.current_price < oco.sl * 10

\* C5: place_oco derives, for BUY, take_profit = round(price*(1+tp_pct/100)) and
\* stop_loss = round(price*(1-sl_pct/100)) with closing side SELL, for SELL
\* take_profit = round(price*(1-tp_pct/100)) and stop_loss = round(price*(1+sl_pct/100))
\* with closing side BUY; every order it submits is on the closing side, the
\* STOP_MARKET order carries stop_loss and the TAKE_PROFIT_MARKET order carries
\* take_profit as stopPrice; price=50000, BUY, 2%, 2% gives 51000, 49000, SELL.
C5_OcoDerivation ==
    op = "oco"
       => /\ oco.done
                => IF args.side = "BUY"
                   THEN /\ IsPyRound(oco.tp, oco.current_price * (100 + args.tp_percent), 1000)
                        /\ IsPyRound(oco.sl, oco.current_price * (100 - args.sl_percent), 1000)
                   ELSE /\ IsPyRound(oco.tp, oco.current_price * (100 - args.tp_percent), 1000)
                        /\ IsPyRound(oco.sl, oco.current_price * (100 + args.sl_percent), 1000)
          /\ \A i \in CallIndexes :
                calls[i].fn = "futures_create_order"
                   => /\ args.side = "BUY" => calls[i].side = "SELL"
                      /\ args.side = "SELL" => calls[i].side = "BUY"
                      /\ calls[i].type \in {"STOP_MARKET", "TAKE_PROFIT_MARKET"}
                      /\ calls[i].type = "STOP_MARKET" => calls[i].stopPrice = oco.sl
                      /\ calls[i].type = "TAKE_PROFIT_MARKET" => calls[i].stopPrice = oco.tp
          /\ outcome = "order"
                => /\ Len(calls) = 3
                   /\ calls[2].type = "STOP_MARKET"
                   /\ calls[3].type = "TAKE_PROFIT_MARKET"
          /\ (oco.done /\ oco.current_price = 500000 /\ args.side = "BUY"
                /\ args.tp_percent = 2 /\ args.sl_percent = 2)
                => oco.tp = 51000 /\ oco.sl = 49000 /\ oco.order_side = "SELL"

C5_Witness ==
    /\ op = "oco" /\ pc = "done" /\ outcome = "order"
    /\ oco.current_price = 500000 /\ args.side = "BUY"
    /\ args.tp_percent = 2 /\ args.sl_percent = 2
    /\ calls[2].type = "STOP_MARKET" /\ calls[2].stopPrice = 49000
    /\ calls[2].side = "SELL"
    /\ calls[3].type = "TAKE_PROFIT_MARKET" /\ calls[3].stopPrice = 51000
    /\ calls[3].side = "SELL"

\* min_qty and max_qty as the claim defines them: round(min_usd/price, 6) with
\* min_usd = 100 and round(balance*leverage*0.8/price, 6), in millionths for a price
\* in tenths; the fraction of max_qty is reduced before it is compared
C6_LimitsAsDefined ==
    LET g == Gcd(1000000, bounds.price)
    IN  /\ IsPyRound(bounds.min_qty, 100 * 10 * 1000000, bounds.price)
        /\ IsPyRound(bounds.max_qty,
                     bounds.bal * bounds.leverage * 8 * (1000000 \div g),
                     bounds.price \div g)

\* C6 as stated: validate_quantity_bounds returns exactly min_qty whenever the
\* requested quantity is below min_qty, exactly max_qty whenever it is above max_qty,
\* and the requested quantity otherwise; quantity=0.0001, price=50000 yields 0.002.
C6_ClampToMinOrMax ==
    bounds.done
       => /\ C6_LimitsAsDefined
          /\ bounds.requested < bounds.min_qty => bounds.returned = bounds.min_qty
          /\ bounds.requested > bounds.max_qty => bounds.returned = bounds.max_qty
          /\ (bounds.requested >= bounds.min_qty /\ bounds.requested <= bounds.max_qty)
                => bounds.returned = bounds.requested
          /\ (bounds.requested = 100 /\ bounds.price = 500000) => bounds.returned = 2000

\* what the adjuster does: it returns exactly min_qty whenever the requested quantity
\* is below min_qty (also when that exceeds max_qty), exactly max_qty whenever it is
\* not below min_qty and above max_qty, and the requested quantity otherwise;
\* quantity=0.0001, price=50000 yields 0.002.
C6_ClampMinTakesPrecedence ==
    bounds.done
       => /\ C6_LimitsAsDefined
          /\ bounds.requested < bounds.min_qty => bounds.returned = bounds.min_qty
          /\ (bounds.requested >= bounds.min_qty /\ bounds.requested > bounds.max_qty)
                => bounds.returned = bounds.max_qty
          /\ (bounds.requested >= bounds.min_qty /\ bounds.requested <= bounds.max_qty)
                => bounds.returned = bounds.requested
          /\ (bounds.requested = 100 /\ bounds.price = 500000) => bounds.returned = 2000

\* a requested quantity between max_qty and min_qty was raised to min_qty
C6_Witness ==
    /\ bounds.done
    /\ bounds.requested = 1000 /\ bounds.price = 500000
    /\ bounds.min_qty = 2000 /\ bounds.max_qty = 160
    /\ bounds.returned = 2000
    /\ quantity = 2000

\* C7: in place_limit_order a time_in_force that is not GTC, IOC or FOK is a
\* validation error: the operation reports a rejection and makes no create-order call.
C7_InvalidTimeInForceRejected ==
    (op = "limit" /\ args.time_in_force \notin {"GTC", "IOC", "FOK"})
       => /\ ~Made("futures_create_order")
          /\ pc = "done" => outcome # "order"

\* C8: every create-order call of the three operations carries a strictly positive
\* quantity, and for limit orders a strictly positive price; a request with
\* quantity <= 0 (or limit price <= 0) never results in an order being submitted.
C8_SubmittedQuantityPositive ==
    /\ \A i \in CallIndexes :
          calls[i].fn = "futures_create_order"
             => /\ calls[i].quantity > 0
                /\ calls[i].type = "LIMIT" => calls[i].price > 0
    /\ (args.quantity <= 0 \/ (op = "limit" /\ args.price <= 0))
          => ~Made("futures_create_order")

\* the directional check as the claim words it, prices in whole units against a
\* current price in tenths
C9_DirectionViolated ==
    IF args.side = "BUY"
    THEN oco.sl * 10 >= oco.current_price \/ oco.tp * 10 <= oco.current_price
    ELSE oco.sl * 10 <= oco.current_price \/ oco.tp * 10 >= oco.current_price

\* C9: in place_oco, whenever the derived trigger prices violate the directional
\* check, the operation ends in a raised input error (not a normal result) and
\* neither the STOP_MARKET nor the TAKE_PROFIT_MARKET create-order call is made.
C9_DirectionViolationRaises ==
    (op = "oco" /\ oco.done /\ C9_DirectionViolated)
       => /\ pc = "done"
          /\ outcome = "raised"
          /\ error.type = "ValueError"
          /\ ~Made("futures_create_order")

C9_Witness ==
    /\ op = "oco" /\ oco.done /\ C9_DirectionViolated
    /\ args.tp_percent = 0 /\ args.sl_percent = 0
    /\ outcome = "raised"
    /\ Len(calls) = 1

\* C10: for each of the three operations, a margin balance below 10 or an
\* unreachable exchange is fatal: an order is created only after the liveness probe
\* answered and the balance check found at least 10 in that invocation, and a failed
\* probe or balance check is the last exchange call of the invocation.
C10_NoOrderWithoutMarginAndProbe ==
    /\ \A i \in CallIndexes :
          calls[i].fn = "futures_create_order"
             => /\ \E j \in 1..(i - 1) :
                      calls[j].fn = "futures_ping" /\ calls[j].ret = "ok"
                /\ \E j \in 1..(i - 1) :
                      /\ calls[j].fn = "futures_account_balance"
                      /\ calls[j].ret = "ok" /\ calls[j].value >= 10
    /\ \A i \in CallIndexes :
          (\/ calls[i].fn = "futures_ping" /\ calls[i].ret # "ok"
           \/ /\ calls[i].fn = "futures_account_balance"
              /\ \A j \in 1..(i - 1) : calls[j].fn # "futures_account_balance"
              /\ calls[i].ret # "ok" \/ calls[i].value < 10)
             => i = Len(calls)

\* the six gate checks of place_order
GateChecks == {"validate_symbol", "validate_side", "validate_order_params",
               "validate_market_status", "validate_leverage", "validate_margin"}
\* the first position of step name in the trace, 0 when it has not run
FirstRun(name) ==
    IF Ran(name) THEN CHOOSE k \in 1..Len(trace) :
                         /\ trace[k] = name
                         /\ \A m \in 1..(k - 1) : trace[m] # name
    ELSE 0

\* C11: in place_order the set-leverage call is made only after all six gate checks
\* (symbol, side, quantity positivity, reachability, leverage range, margin) have
\* passed and strictly before the create-order call; it is the only leverage call of
\* the invocation, so when a later step fails the operation returns the failure
\* result and the exchange keeps the leverage that was set.
C11_LeverageSetAfterGateAndKept ==
    op = "market"
       => /\ \A i \in CallIndexes :
                calls[i].fn = "futures_change_leverage"
                   => /\ \A n \in GateChecks :
                            /\ FirstRun(n) > 0
                            /\ FirstRun(n) < FirstRun("futures_change_leverage")
                      /\ args.symbol \in PublishedSymbols
                      /\ args.side \in {"BUY", "SELL"}
                      /\ args.quantity > 0
                      /\ args.leverage.kind = "int"
                      /\ args.leverage.val \in MinLeverage..MaxLeverage
                      /\ \E j \in 1..(i - 1) :
                            calls[j].fn = "futures_ping" /\ calls[j].ret = "ok"
                      /\ \E j \in 1..(i - 1) :
                            /\ calls[j].fn = "futures_account_balance"
                            /\ calls[j].ret = "ok"
                            /\ calls[j].value >= DefaultMinUsdRequired
                      /\ \A j \in 1..i : calls[j].fn # "futures_create_order"
                      /\ \A j \in CallIndexes \ {i} :
                            calls[j].fn # "futures_change_leverage"
                      /\ calls[i].leverage = args.leverage
          /\ \A i \in CallIndexes :
                calls[i].fn = "futures_create_order"
                   => \E j \in 1..(i - 1) :
                         /\ calls[j].fn = "futures_change_leverage"
                         /\ calls[j].ret = "ok"
          /\ (\E i \in CallIndexes :
                 calls[i].fn = "futures_change_leverage" /\ calls[i].ret = "ok")
                => /\ exLeverage = args.leverage.val
                   /\ pc = "done" /\ outcome # "order" => outcome = "none"

\* place_order set the leverage to 125 and the exchange then rejected the order
C11_Witness ==
    /\ op = "market" /\ pc = "done" /\ outcome = "none"
    /\ args.leverage = IntLev(125)
    /\ exLeverage = 125
    /\ \E i \in CallIndexes :
          /\ calls[i].fn = "futures_change_leverage" /\ calls[i].ret = "ok"
          /\ \E j \in (i + 1)..Len(calls) :
                calls[j].fn = "futures_create_order" /\ calls[j].ret = "raise"

\* whether the arguments of the request fail the gate check name
RequestFails(name) ==
    CASE name = "validate_symbol" -> args.symbol \notin PublishedSymbols
      [] name = "validate_side" -> args.side \notin {"BUY", "SELL"}
      [] name = "validate_order_params" -> args.quantity <= 0
      [] name = "validate_leverage" ->
            \/ args.leverage.kind # "int"
            \/ args.leverage.val \notin MinLeverage..MaxLeverage
      [] OTHER -> FALSE
\* the messages with which the gate check name rejects a request
RejectionsOf(name) ==
    CASE name = "validate_symbol" -> {UnknownSymbolError, ApiError.msg}
      [] name = "validate_side" -> {"Side must be BUY or SELL"}
      [] name = "validate_order_params" -> {"Quantity must be a positive number"}
      [] name = "validate_market_status" ->
            {"Binance Futures API is unreachable", ApiError.msg}
      [] name = "validate_leverage" ->
            {"Leverage must be an integer", LeverageRangeError}
      [] name = "validate_margin" -> {"Insufficient balance", "", ApiError.msg}
      [] OTHER -> {}
\* the exchange call of the gate check name, "" when it makes none
ExchangeCallOf(name) ==
    CASE name = "validate_symbol" -> "futures_exchange_info"
      [] name = "validate_market_status" -> "futures_ping"
      [] name = "validate_margin" -> "futures_account_balance"
      [] OTHER -> ""
\* the gate of place_order runs its checks in the given order and stops at the first
\* one that fails: the rejection is that of the earliest failing check, and no later
\* check, nor its exchange call, is executed
GateFollows(order) ==
    op = "market"
       => /\ \A p \in 1..Len(order) :
                /\ p <= Len(trace) => trace[p] = order[p]
                /\ RequestFails(order[p])
                      => /\ Len(trace) <= p
                         /\ pc = "done" /\ Len(trace) = p
                               => /\ outcome = "none"
                                  /\ error.msg \in RejectionsOf(order[p])
                /\ ExchangeCallOf(order[p]) # "" /\ Made(ExchangeCallOf(order[p]))
                      => Len(trace) >= p
          /\ pc = "done" /\ Len(trace) \in 1..Len(order)
                => /\ outcome = "none"
                   /\ error.msg \in RejectionsOf(trace[Len(trace)])

C13_EveryErrorPathLogs ==
    pc = "done" /\ outcome \in {"none", "raised"}
       => \E i \in 1..Len(logs) : logs[i] \in {"warning", "error"}

\* the positions of the create-order calls of the given type
OrdersOfType(t) ==
    {i \in CallIndexes : calls[i].fn = "futures_create_order" /\ calls[i].type = t}

\* C14: place_oco submits the STOP_MARKET order first and the TAKE_PROFIT_MARKET order
\* only after the stop-loss order was accepted, each at most once; it returns a
\* non-failure result only when both were accepted; when the take-profit submission
\* fails it returns the failure result and makes no further exchange call, so the
\* accepted stop-loss order remains placed.
C14_StopLossThenTakeProfit ==
    op = "oco"
       => /\ Cardinality(OrdersOfType("STOP_MARKET")) <= 1
          /\ Cardinality(OrdersOfType("TAKE_PROFIT_MARKET")) <= 1
          /\ \A i \in CallIndexes :
                calls[i].fn = "futures_create_order"
                   => calls[i].type \in {"STOP_MARKET", "TAKE_PROFIT_MARKET"}
          /\ \A t \in OrdersOfType("TAKE_PROFIT_MARKET") :
                \E s \in OrdersOfType("STOP_MARKET") : s < t /\ calls[s].ret = "ok"
          /\ outcome = "order"
                => /\ \E s \in OrdersOfType("STOP_MARKET") : calls[s].ret = "ok"
                   /\ \E t \in OrdersOfType("TAKE_PROFIT_MARKET") : calls[t].ret = "ok"
          /\ \A i \in CallIndexes :
                calls[i].fn = "futures_create_order" /\ calls[i].ret # "ok"
                   => /\ i = Len(calls)
                      /\ pc = "done" /\ outcome = "none"
          /\ \A i \in CallIndexes :
                calls[i].fn \in {"futures_symbol_ticker", "futures_create_order"}

\* the take-profit submission failed after the stop-loss order was accepted
C14_Witness ==
    /\ op = "oco" /\ pc = "done" /\ outcome = "none"
    /\ Len(calls) = 3
    /\ calls[2].type = "STOP_MARKET" /\ calls[2].ret = "ok"
    /\ calls[3].type = "TAKE_PROFIT_MARKET" /\ calls[3].ret = "raise"

\* C15: the quantity returned by validate_quantity_bounds, and therefore the quantity
\* of every market order submitted, lies within [min_qty, max_qty]: it never exceeds
\* the margin-derived maximum, whatever the balance, the leverage and the price are
\* (min_qty above max_qty included).
C15_AdjustedQuantityWithinLimits ==
    /\ bounds.done
          => /\ bounds.returned >= bounds.min_qty
             /\ bounds.returned <= bounds.max_qty
    /\ \A i \in CallIndexes :
          (op = "market" /\ calls[i].fn = "futures_create_order")
             => /\ bounds.done
                /\ calls[i].quantity = bounds.returned
                /\ calls[i].quantity >= bounds.min_qty
                /\ calls[i].quantity <= bounds.max_qty

=============================================================================
